---- MODULE Spec2Model ----
(***************************************************************************)
(* ByteSmith: the tool arbitration node (ToolNode.__call__) and the state  *)
(* reducers (replace_list, add_constraints).                               *)
(*                                                                         *)
(* ToolNode.__call__ is a coroutine: it is modelled as a process whose     *)
(* position pc advances from one await to the next.  The operator console  *)
(* and the tools are collaborators; what they were asked is recorded in    *)
(* the logs prompts, invocations, results and failed.                      *)
(***************************************************************************)
EXTENDS Naturals, Sequences, FiniteSets, TLC

\* ------------------------------------------------------------------ bounds
\* Most tool calls one assistant message requests.
MaxCalls == 2
\* Longest constraint list handed to a reducer.
MaxLen == 2
\* Most invocations of the node the orchestrator makes in one conversation, and
\* most tool calls of an assistant message in such a conversation.
MaxTurns == 2
MaxTurnCalls == 1

\* ------------------------------------------------------------- JSON values
\* A JSON value is a string or an object with string values; an object keeps
\* the insertion order of its keys, as a Python dict does.
JStr(s) == [kind |-> "str", s |-> s, d |-> <<>>]
JDict(d) == [kind |-> "dict", s |-> "", d |-> d]

Quote(s) == "\"" \o s \o "\""

RECURSIVE dumps_items(_)
dumps_items(d) ==
    IF d = <<>> THEN ""
    ELSE Quote(d[1][1]) \o ": " \o Quote(d[1][2])
         \o (IF Len(d) > 1 THEN ", " \o dumps_items(Tail(d)) ELSE "")

\* json.dumps with its default separators (", " and ": "); the strings of the
\* model hold no character that json.dumps escapes.
json_dumps(v) ==
    IF v.kind = "str" THEN Quote(v.s) ELSE "{" \o dumps_items(v.d) \o "}"

\* ------------------------------------------------------------ the catalog
\* The names of the registered tools (runtime.context.tools), and the names an
\* assistant message may request: "ghost" is registered nowhere.
ToolNames == {"search", "edit"}
RequestedNames == ToolNames \cup {"ghost"}
Catalogs == {{}, ToolNames}
ArgsSet == { << <<"q", "x">> >>, << <<"path", "a.py">> >> }

\* What a tool's ainvoke may return.
RawResults == {JStr("3 matches"), JDict(<< <<"result", "ok">> >>)}

\* ---------------------------------------------------------------- messages
Msg(type, id, content, name, tool_call_id, tool_calls) ==
    [type |-> type, id |-> id, content |-> content, name |-> name,
     tool_call_id |-> tool_call_id, tool_calls |-> tool_calls]

HumanMessage(id) == Msg("human", id, "do it", "", "", <<>>)
AIMessage(id, calls) == Msg("ai", id, "", "", "", calls)
\* ToolMessage(content=..., name=..., tool_call_id=...): no id is given.
ToolMessage(content, name, tool_call_id) ==
    Msg("tool", "", content, name, tool_call_id, <<>>)
RemoveMessage(id) == Msg("remove", id, "", "", "", <<>>)

CallId(i) == "call_" \o ToString(i)
CallShapes == [name : RequestedNames, args : ArgsSet]
\* The tool_calls of an assistant message: call ids are unique in a message.
Batches ==
    UNION { { [i \in 1..n |-> [name |-> f[i].name, args |-> f[i].args, id |-> CallId(i)]]
              : f \in [1..n -> CallShapes] } : n \in 0..MaxCalls }

\* ------------------------------------------------------------- constraints
ConstraintSchema(type, description, source) ==
    [type |-> type, description |-> description, source |-> source]

\* A list that may be None.
None == [some |-> FALSE, list |-> <<>>]
Some(l) == [some |-> TRUE, list |-> l]

\* ---------------------------------------------------------------- reducers
replace_list_appends(left, right) == IF ~left.some THEN right ELSE left.list \o right
replace_list(left, right) == right

add_constraints_overwrite(left, right) == right
add_constraints_dedup(left, right) ==
    IF ~left.some THEN right
    ELSE left.list \o SelectSeq(right, LAMBDA c : \A i \in 1..Len(left.list) : left.list[i] # c)
add_constraints_swapped(left, right) ==
    IF ~left.some THEN right ELSE right \o left.list
add_constraints(left, right) ==
    IF ~left.some THEN right ELSE left.list \o right

\* ------------------------------------------------------------ collaborators
\* get_last_message: the most recent message of the sequence.
get_last_message(msgs) == msgs[Len(msgs)]

\* ---------------------------------------------------------------- commands
Command(goto, keys, msgs, cons) ==
    [goto |-> goto,
     update |-> [keys |-> keys, messages |-> msgs, constraints |-> cons]]

VARIABLES
    messages,      \* state["messages"]
    constraints,   \* state["constraints"], possibly None
    tools,         \* runtime.context.tools, as the set of the tools' names
    pc,            \* where __call__ is
    message,       \* local: the message under arbitration
    outputs,       \* local: the ToolMessages so far
    idx,           \* local: the position of the for loop in message.tool_calls
    tool_result,   \* local: the last tool_result
    ret,           \* <<>>, or <<the Command returned>>
    exc,           \* the exception that left __call__, "" when none
    prompts,       \* log: the prompts answered, in order
    invocations,   \* log: the ainvoke calls started, in order
    results,       \* log: what the completed ainvoke calls returned, in order
    failed,        \* log: the calls whose ainvoke raised
    entry,         \* the ConversationState as it was handed to __call__
    left, right, right2, merged, merged2, rpc,  \* the reducer harness
    replaced, replaced2, xpc,                   \* the reducer harness, replace_list
    turn,          \* orchestrator: the invocations of the node started so far
    nextId,        \* orchestrator: the number of the next message id it assigns
    aborts,        \* orchestrator: the declined calls whose patches it has merged
    call1, call2, desc1, desc2, dpc             \* the description harness

nodeVars == <<messages, constraints, tools, pc, message, outputs, idx,
              tool_result, ret, exc, prompts, invocations, results, failed, entry>>
redVars == <<left, right, right2, merged, merged2, rpc, replaced, replaced2, xpc>>
orchVars == <<turn, nextId, aborts>>
descVars == <<call1, call2, desc1, desc2, dpc>>
vars == <<nodeVars, redVars, orchVars, descVars>>

NoResult == JStr("")
NoCall == [name |-> "", args |-> <<>>, id |-> ""]
NoMessage == Msg("", "", "", "", "", <<>>)

\* ------------------------------------------------------ ToolNode.__call__
\* `if not tools`
NoToolsNever(t) == FALSE
NoTools(t) == t = {}

\* tools_by_name = {tool.name: tool for tool in tools}
tools_by_name(t) == [n \in t |-> n]

\* tools_by_name[name] finds a tool; otherwise the subscript raises KeyError.
ResolvesAlways(t, name) == TRUE
Resolves(t, name) == name \in DOMAIN tools_by_name(t)

DeclinedResult == JDict(<< <<"result", "User declined tool call.">> >>)
DiscardedResult ==
    JDict(<< <<"result", "User did not find the results useful for the task.">> >>)

\* The constraint of a declined call.
DeclineConstraintNameOnly(tool_call) ==
    ConstraintSchema("avoid", "Do not use " \o tool_call.name, "declined_tool")
DeclineConstraint(tool_call) ==
    ConstraintSchema("avoid",
        "Do not use " \o tool_call.name \o " with arguments: "
            \o json_dumps(JDict(tool_call.args)),
        "declined_tool")

\* return Command(goto="assistant_node", update={"messages": []})
EmptyCommand == Command("assistant_node", {"messages"}, <<>>, <<>>)

\* The Command of a declined call: remove the last message, add the constraint.
AbortCommandKeepsOutputs(msg, tool_call, outs) ==
    Command("assistant_node", {"messages", "constraints"},
            outs \o <<RemoveMessage(msg.id)>>, <<DeclineConstraint(tool_call)>>)
AbortCommandTwice(msg, tool_call, outs) ==
    Command("assistant_node", {"messages", "constraints"},
            <<RemoveMessage(msg.id)>>,
            <<DeclineConstraint(tool_call), DeclineConstraint(tool_call)>>)
AbortCommandRemovesOther(msg, tool_call, outs) ==
    Command("assistant_node", {"messages", "constraints"},
            <<RemoveMessage("m1")>>, <<DeclineConstraint(tool_call)>>)
AbortCommand(msg, tool_call, outs) ==
    Command("assistant_node", {"messages", "constraints"},
            <<RemoveMessage(msg.id)>>, <<DeclineConstraint(tool_call)>>)

\* return Command(goto="assistant_node", update={"messages": outputs})
ResultCommand(outs) == Command("assistant_node", {"messages"}, outs, <<>>)

\* `if not add_result: tool_result = {...}`
ReviewedNeverDiscards(add_result, raw) == raw
Reviewed(add_result, raw) == IF ~add_result THEN DiscardedResult ELSE raw

\* outputs.append(ToolMessage(...))
AppendOutputFirst(outs, tool_call, payload) ==
    <<ToolMessage(json_dumps(payload), tool_call.name, tool_call.id)>> \o outs
AppendOutput(outs, tool_call, payload) ==
    Append(outs, ToolMessage(json_dumps(payload), tool_call.name, tool_call.id))

Calls == message.tool_calls
Cur == Calls[idx]

Init ==
    /\ \E b \in Batches : messages = <<HumanMessage("m1"), AIMessage("m2", b)>>
    /\ constraints \in {None, Some(<<ConstraintSchema("prefer", "Use tabs", "user")>>)}
    /\ tools \in Catalogs
    /\ pc = "idle"
    /\ message = NoMessage
    /\ outputs = <<>>
    /\ idx = 0
    /\ tool_result = NoResult
    /\ ret = <<>>
    /\ exc = ""
    /\ prompts = <<>>
    /\ invocations = <<>>
    /\ results = <<>>
    /\ failed = {}
    /\ entry = [messages |-> messages, constraints |-> constraints]
    /\ left = None /\ right = <<>> /\ right2 = <<>>
    /\ merged = <<>> /\ merged2 = <<>> /\ rpc = "off"
    /\ replaced = <<>> /\ replaced2 = <<>> /\ xpc = "off"
    /\ turn = 1 /\ nextId = 3 /\ aborts = <<>>
    /\ call1 = NoCall /\ call2 = NoCall /\ desc1 = "" /\ desc2 = "" /\ dpc = "off"

\* An entry that takes the last message off the state's list.
EnterPops ==
    /\ pc = "idle"
    /\ message' = get_last_message(messages)
    /\ messages' = SubSeq(messages, 1, Len(messages) - 1)
    /\ outputs' = <<>>
    /\ IF NoTools(tools)
       THEN /\ ret' = <<EmptyCommand>>
            /\ pc' = "returned"
            /\ idx' = idx
       ELSE IF message'.tool_calls = <<>>
            THEN /\ ret' = <<ResultCommand(outputs')>>
                 /\ pc' = "returned"
                 /\ idx' = idx
            ELSE /\ ret' = ret
                 /\ pc' = "confirm"
                 /\ idx' = 1
    /\ UNCHANGED <<constraints, tools, tool_result, exc, prompts,
                   invocations, results, failed, entry, redVars, orchVars, descVars>>

\* Lines 19-34: from the call to the first await of the loop, or to a return.
Enter ==
    /\ pc = "idle"
    /\ message' = get_last_message(messages)
    /\ outputs' = <<>>
    /\ IF NoTools(tools)
       THEN /\ ret' = <<EmptyCommand>>
            /\ pc' = "returned"
            /\ idx' = idx
       ELSE IF message'.tool_calls = <<>>
            THEN /\ ret' = <<ResultCommand(outputs')>>
                 /\ pc' = "returned"
                 /\ idx' = idx
            ELSE /\ ret' = ret
                 /\ pc' = "confirm"
                 /\ idx' = 1
    /\ UNCHANGED <<messages, constraints, tools, tool_result, exc, prompts,
                   invocations, results, failed, entry, redVars, orchVars, descVars>>

Prompt(call, kind, answer) == [call |-> call, kind |-> kind, answer |-> answer]
InvocationStale(call, tool_call) ==
    [call |-> call, name |-> Calls[1].name, args |-> Calls[1].args]
Invocation(call, tool_call) == [call |-> call, name |-> tool_call.name, args |-> tool_call.args]

\* Line 40: the await of the confirmation prompt is cancelled; nothing catches it.
ConfirmCancelled ==
    /\ pc = "confirm"
    /\ prompts' = Append(prompts, Prompt(idx, "confirm", "cancel"))
    /\ pc' = "raised"
    /\ exc' = "OperatorCancellation"
    /\ UNCHANGED <<messages, constraints, tools, message, outputs, idx, tool_result,
                   ret, invocations, results, failed, entry, redVars, orchVars, descVars>>

\* An accepted call whose ainvoke is started and not awaited.
ConfirmAcceptedDetached ==
    /\ pc = "confirm"
    /\ prompts' = Append(prompts, Prompt(idx, "confirm", "yes"))
    /\ IF Resolves(tools, Cur.name)
       THEN /\ invocations' = Append(invocations, Invocation(idx, Cur))
            /\ IF idx < Len(Calls)
               THEN idx' = idx + 1 /\ pc' = "confirm"
               ELSE idx' = idx /\ pc' = "invoking"
            /\ exc' = exc
       ELSE /\ invocations' = invocations
            /\ idx' = idx
            /\ pc' = "raised"
            /\ exc' = "KeyError"
    /\ UNCHANGED <<messages, constraints, tools, message, outputs, tool_result,
                   ret, results, failed, entry, redVars, orchVars, descVars>>

\* Lines 40-43: run_tool is true; the tool is looked up and its ainvoke awaited.
ConfirmAccepted ==
    /\ pc = "confirm"
    /\ prompts' = Append(prompts, Prompt(idx, "confirm", "yes"))
    /\ IF Resolves(tools, Cur.name)
       THEN /\ invocations' = Append(invocations, Invocation(idx, Cur))
            /\ pc' = "invoking"
            /\ exc' = exc
       ELSE /\ invocations' = invocations
            /\ pc' = "raised"
            /\ exc' = "KeyError"
    /\ UNCHANGED <<messages, constraints, tools, message, outputs, idx, tool_result,
                   ret, results, failed, entry, redVars, orchVars, descVars>>

\* A decline that skips the call and goes on with the loop.
ConfirmDeclinedContinues ==
    /\ pc = "confirm"
    /\ prompts' = Append(prompts, Prompt(idx, "confirm", "no"))
    /\ tool_result' = DeclinedResult
    /\ IF idx < Len(Calls)
       THEN /\ idx' = idx + 1
            /\ pc' = "confirm"
            /\ ret' = ret
       ELSE /\ idx' = idx
            /\ pc' = "returned"
            /\ ret' = <<AbortCommand(message, Cur, outputs)>>
    /\ UNCHANGED <<messages, constraints, tools, message, outputs, exc,
                   invocations, results, failed, entry, redVars, orchVars, descVars>>

\* Lines 40, 44-58: run_tool is false; the constraint is built and __call__ returns.
ConfirmDeclined ==
    /\ pc = "confirm"
    /\ prompts' = Append(prompts, Prompt(idx, "confirm", "no"))
    /\ tool_result' = DeclinedResult
    /\ ret' = <<AbortCommand(message, Cur, outputs)>>
    /\ pc' = "returned"
    /\ UNCHANGED <<messages, constraints, tools, message, outputs, idx, exc,
                   invocations, results, failed, entry, redVars, orchVars, descVars>>

\* Lines 43, 61-64: ainvoke completes; the result is shown and the review prompt awaited.
InvokeReturns ==
    /\ pc = "invoking"
    /\ \E r \in RawResults :
         /\ tool_result' = r
         /\ results' = Append(results, [call |-> idx, raw |-> r])
    /\ pc' = "review"
    /\ UNCHANGED <<messages, constraints, tools, message, outputs, idx, ret, exc,
                   prompts, invocations, failed, entry, redVars, orchVars, descVars>>

\* Line 43: ainvoke raises; no try surrounds the await, the exception leaves __call__.
InvokeRaises ==
    /\ pc = "invoking"
    /\ failed' = failed \cup {idx}
    /\ pc' = "raised"
    /\ exc' = "ToolException"
    /\ UNCHANGED <<messages, constraints, tools, message, outputs, idx, tool_result,
                   ret, prompts, invocations, results, entry, redVars, orchVars, descVars>>

\* A cancellation of the review prompt caught and answered with what was gathered.
ReviewCancelledReturns ==
    /\ pc = "review"
    /\ prompts' = Append(prompts, Prompt(idx, "review", "cancel"))
    /\ pc' = "returned"
    /\ ret' = <<ResultCommand(outputs)>>
    /\ UNCHANGED <<messages, constraints, tools, message, outputs, idx, tool_result,
                   exc, invocations, results, failed, entry, redVars, orchVars, descVars>>

\* Line 64: the await of the review prompt is cancelled; nothing catches it.
ReviewCancelled ==
    /\ pc = "review"
    /\ prompts' = Append(prompts, Prompt(idx, "review", "cancel"))
    /\ pc' = "raised"
    /\ exc' = "OperatorCancellation"
    /\ UNCHANGED <<messages, constraints, tools, message, outputs, idx, tool_result,
                   ret, invocations, results, failed, entry, redVars, orchVars, descVars>>

\* A review after which the function ends without its final return.
ReviewAnsweredNoReturn ==
    /\ pc = "review"
    /\ \E add_result \in BOOLEAN :
         /\ prompts' = Append(prompts,
                Prompt(idx, "review", IF add_result THEN "yes" ELSE "no"))
         /\ tool_result' = Reviewed(add_result, tool_result)
    /\ outputs' = AppendOutput(outputs, Cur, tool_result')
    /\ IF idx < Len(Calls)
       THEN idx' = idx + 1 /\ pc' = "confirm"
       ELSE idx' = idx /\ pc' = "fell_through"
    /\ UNCHANGED <<messages, constraints, tools, message, ret, exc, invocations,
                   results, failed, entry, redVars, orchVars, descVars>>

\* Lines 64-77: the review is answered; the ToolMessage is appended and the loop
\* goes to the next call, or __call__ returns the outputs after the last one.
ReviewAnswered ==
    /\ pc = "review"
    /\ \E add_result \in BOOLEAN :
         /\ prompts' = Append(prompts,
                Prompt(idx, "review", IF add_result THEN "yes" ELSE "no"))
         /\ tool_result' = Reviewed(add_result, tool_result)
    /\ outputs' = AppendOutput(outputs, Cur, tool_result')
    /\ IF idx < Len(Calls)
       THEN /\ idx' = idx + 1
            /\ pc' = "confirm"
            /\ ret' = ret
       ELSE /\ idx' = idx
            /\ pc' = "returned"
            /\ ret' = <<ResultCommand(outputs')>>
    /\ UNCHANGED <<messages, constraints, tools, message, exc, invocations,
                   results, failed, entry, redVars, orchVars, descVars>>

Next ==
    \/ Enter
    \/ ConfirmCancelled
    \/ ConfirmAccepted
    \/ ConfirmDeclined
    \/ InvokeReturns
    \/ InvokeRaises
    \/ ReviewCancelled
    \/ ReviewAnswered

Spec == Init /\ [][Next]_vars

\* ------------------------------------------------------ the reducer harness
\* The constraints the harness feeds to the reducers.
HarnessConstraints ==
    {ConstraintSchema("avoid", "Do not use edit with arguments: {}", "declined_tool"),
     ConstraintSchema("prefer", "Use tabs", "user")}
HarnessLists == UNION {[1..n -> HarnessConstraints] : n \in 0..MaxLen}

InitReducers ==
    /\ messages = <<HumanMessage("m1")>>
    /\ constraints = None
    /\ tools = {}
    /\ pc = "off"
    /\ message = NoMessage
    /\ outputs = <<>>
    /\ idx = 0
    /\ tool_result = NoResult
    /\ ret = <<>>
    /\ exc = ""
    /\ prompts = <<>>
    /\ invocations = <<>>
    /\ results = <<>>
    /\ failed = {}
    /\ entry = [messages |-> messages, constraints |-> constraints]
    /\ left \in {None} \cup {Some(l) : l \in HarnessLists}
    /\ right \in HarnessLists
    /\ right2 \in HarnessLists
    /\ merged = <<>>
    /\ merged2 = <<>>
    /\ rpc = "start"
    /\ replaced = <<>>
    /\ replaced2 = <<>>
    /\ xpc = "start"
    /\ turn = 1 /\ nextId = 3 /\ aborts = <<>>
    /\ call1 = NoCall /\ call2 = NoCall /\ desc1 = "" /\ desc2 = "" /\ dpc = "off"

\* The orchestrator folds a first patch into the field: add_constraints(left, right).
MergeFirst ==
    /\ rpc = "start"
    /\ merged' = add_constraints(left, right)
    /\ rpc' = "one"
    /\ UNCHANGED <<nodeVars, orchVars, descVars, left, right, right2, merged2,
                   replaced, replaced2, xpc>>

\* It folds a second patch into the result of the first.
MergeSecond ==
    /\ rpc = "one"
    /\ merged2' = add_constraints(Some(merged), right2)
    /\ rpc' = "two"
    /\ UNCHANGED <<nodeVars, orchVars, descVars, left, right, right2, merged,
                   replaced, replaced2, xpc>>

\* The orchestrator folds a first patch into a replace_list field.
ReplaceFirst ==
    /\ xpc = "start"
    /\ replaced' = replace_list(left, right)
    /\ xpc' = "one"
    /\ UNCHANGED <<nodeVars, orchVars, descVars, left, right, right2, merged, merged2,
                   rpc, replaced2>>

\* It folds the same incoming value into the result once more.
ReplaceSecond ==
    /\ xpc = "one"
    /\ replaced2' = replace_list(Some(replaced), right)
    /\ xpc' = "two"
    /\ UNCHANGED <<nodeVars, orchVars, descVars, left, right, right2, merged, merged2,
                   rpc, replaced>>

NextReducers ==
    \/ MergeFirst
    \/ MergeSecond
    \/ ReplaceFirst
    \/ ReplaceSecond

SpecReducers == InitReducers /\ [][NextReducers]_vars

\* --------------------------------------------------------- the orchestrator
\* The orchestrator folds the Command's patch into the ConversationState, the
\* messages by identity (a removal deletes the message of that id, any other
\* message is appended under a fresh id), the constraints with add_constraints
\* when the patch holds that key; the assistant then answers with a new message.
MessageId(k) == "m" \o ToString(k)

RECURSIVE add_messages(_, _, _)
add_messages(current, incoming, k) ==
    IF incoming = <<>> THEN current
    ELSE IF incoming[1].type = "remove"
         THEN add_messages(SelectSeq(current, LAMBDA x : x.id # incoming[1].id),
                           Tail(incoming), k)
         ELSE add_messages(Append(current, [incoming[1] EXCEPT !.id = MessageId(k)]),
                           Tail(incoming), k + 1)

Added(msgs) == Cardinality({k \in 1..Len(msgs) : msgs[k].type # "remove"})

Apply ==
    /\ pc = "returned"
    /\ messages' = add_messages(messages, ret[1].update.messages, nextId)
    /\ nextId' = nextId + Added(ret[1].update.messages)
    /\ IF "constraints" \in ret[1].update.keys
       THEN /\ constraints' = Some(add_constraints(constraints, ret[1].update.constraints))
            /\ aborts' = Append(aborts, [name |-> Cur.name, args |-> Cur.args])
       ELSE /\ constraints' = constraints
            /\ aborts' = aborts
    /\ pc' = "applied"
    /\ UNCHANGED <<tools, message, outputs, idx, tool_result, ret, exc, prompts,
                   invocations, results, failed, entry, turn, redVars, descVars>>

\* The assistant proposes the same tool calls again in a new message, and the
\* orchestrator invokes the node on the new state.
NextTurn ==
    /\ pc = "applied"
    /\ turn < MaxTurns
    /\ messages' = Append(messages, AIMessage(MessageId(nextId), message.tool_calls))
    /\ nextId' = nextId + 1
    /\ turn' = turn + 1
    /\ entry' = [messages |-> messages', constraints |-> constraints]
    /\ pc' = "idle"
    /\ message' = NoMessage
    /\ outputs' = <<>>
    /\ idx' = 0
    /\ tool_result' = NoResult
    /\ ret' = <<>>
    /\ exc' = ""
    /\ prompts' = <<>>
    /\ invocations' = <<>>
    /\ results' = <<>>
    /\ failed' = {}
    /\ UNCHANGED <<constraints, tools, aborts, redVars, descVars>>

InitTurns ==
    /\ \E b \in {c \in Batches : Len(c) <= MaxTurnCalls} :
         messages = <<HumanMessage(MessageId(1)), AIMessage(MessageId(2), b)>>
    /\ constraints \in {None, Some(<<>>)}
    /\ tools \in Catalogs
    /\ pc = "idle"
    /\ message = NoMessage
    /\ outputs = <<>>
    /\ idx = 0
    /\ tool_result = NoResult
    /\ ret = <<>>
    /\ exc = ""
    /\ prompts = <<>>
    /\ invocations = <<>>
    /\ results = <<>>
    /\ failed = {}
    /\ entry = [messages |-> messages, constraints |-> constraints]
    /\ left = None /\ right = <<>> /\ right2 = <<>>
    /\ merged = <<>> /\ merged2 = <<>> /\ rpc = "off"
    /\ replaced = <<>> /\ replaced2 = <<>> /\ xpc = "off"
    /\ turn = 1 /\ nextId = 3 /\ aborts = <<>>
    /\ call1 = NoCall /\ call2 = NoCall /\ desc1 = "" /\ desc2 = "" /\ dpc = "off"

NextTurns ==
    \/ Enter
    \/ ConfirmCancelled
    \/ ConfirmAccepted
    \/ ConfirmDeclined
    \/ InvokeReturns
    \/ InvokeRaises
    \/ ReviewCancelled
    \/ ReviewAnswered
    \/ Apply
    \/ NextTurn

SpecTurns == InitTurns /\ [][NextTurns]_vars

\* ------------------------------------------------- answered and completed
\* The invocation when the operator answers every prompt and every ainvoke
\* completes: no prompt is cancelled, no ainvoke raises, and no step that can be
\* taken is put off for ever.
NextLive ==
    \/ Enter
    \/ ConfirmAccepted
    \/ ConfirmDeclined
    \/ InvokeReturns
    \/ ReviewAnswered

SpecLive == Init /\ [][NextLive]_vars /\ WF_vars(NextLive)

\* ------------------------------------------------- the description harness
\* Two declined calls and the descriptions of their constraints.  Two argument
\* objects hold the same pairs in a different key order.
DescNames == {"search", "edit", "edit with arguments: {}"}
DescArgs ==
    { <<>>,
      << <<"path", "a.py">> >>,
      << <<"path", "a.py">>, <<"mode", "w">> >>,
      << <<"mode", "w">>, <<"path", "a.py">> >> }
DescCalls == [name : DescNames, args : DescArgs, id : {CallId(1)}]

InitDescribe ==
    /\ messages = <<HumanMessage("m1")>>
    /\ constraints = None
    /\ tools = {}
    /\ pc = "off"
    /\ message = NoMessage
    /\ outputs = <<>>
    /\ idx = 0
    /\ tool_result = NoResult
    /\ ret = <<>>
    /\ exc = ""
    /\ prompts = <<>>
    /\ invocations = <<>>
    /\ results = <<>>
    /\ failed = {}
    /\ entry = [messages |-> messages, constraints |-> constraints]
    /\ left = None /\ right = <<>> /\ right2 = <<>>
    /\ merged = <<>> /\ merged2 = <<>> /\ rpc = "off"
    /\ replaced = <<>> /\ replaced2 = <<>> /\ xpc = "off"
    /\ turn = 1 /\ nextId = 3 /\ aborts = <<>>
    /\ call1 \in DescCalls
    /\ call2 \in DescCalls
    /\ desc1 = ""
    /\ desc2 = ""
    /\ dpc = "start"

\* Lines 48-52 for the first declined call.
DescribeFirst ==
    /\ dpc = "start"
    /\ desc1' = DeclineConstraint(call1).description
    /\ dpc' = "one"
    /\ UNCHANGED <<nodeVars, redVars, orchVars, call1, call2, desc2>>

\* Lines 48-52 for the second declined call.
DescribeSecond ==
    /\ dpc = "one"
    /\ desc2' = DeclineConstraint(call2).description
    /\ dpc' = "two"
    /\ UNCHANGED <<nodeVars, redVars, orchVars, call1, call2, desc1>>

NextDescribe ==
    \/ DescribeFirst
    \/ DescribeSecond

SpecDescribe == InitDescribe /\ [][NextDescribe]_vars

\* ------------------------------------------------------------------ claims
Range(q) == {q[i] : i \in 1..Len(q)}
N == Len(Calls)
Confirms == {p \in Range(prompts) : p.kind = "confirm"}
Reviews == {p \in Range(prompts) : p.kind = "review"}
DeclinedCalls == {p.call : p \in {q \in Confirms : q.answer = "no"}}
DiscardedCalls == {p.call : p \in {q \in Reviews : q.answer = "no"}}
KeptCalls == {p.call : p \in {q \in Reviews : q.answer = "yes"}}
CancelledPrompts == {p \in Range(prompts) : p.answer = "cancel"}
InvocationsOf(i) == {k \in 1..Len(invocations) : invocations[k].call = i}
RawOf(i) == (CHOOSE r \in Range(results) : r.call = i).raw
Patch == ret[1].update
ToolResultsIn(msgs) == {k \in 1..Len(msgs) : msgs[k].type = "tool"}
RemovalsIn(msgs) == {k \in 1..Len(msgs) : msgs[k].type = "remove"}
AbsentCalls == {i \in 1..N : Calls[i].name \notin tools}
\* The payloads the code builds itself, and those of successful invocations.
KnownPayloads ==
    {json_dumps(DeclinedResult), json_dumps(DiscardedResult)}
        \cup {json_dumps(r) : r \in RawResults}

\* C1: with a non-empty catalog holding every requested tool, every prompt
\* answered yes, the Command returned goes to the assistant and its patch holds
\* exactly N ToolMessages, the i-th with the id and name of request i and the
\* dumped raw result of call i, no constraint and no removal.
C1_AllAcceptedKept ==
    (/\ pc = "returned"
     /\ tools # {}
     /\ AbsentCalls = {}
     /\ \A p \in Range(prompts) : p.answer = "yes")
    => /\ Len(ret) = 1
       /\ ret[1].goto = "assistant_node"
       /\ Patch.keys = {"messages"}
       /\ Patch.constraints = <<>>
       /\ Len(Patch.messages) = N
       /\ \A i \in 1..N :
            /\ Cardinality(InvocationsOf(i)) = 1
            /\ Patch.messages[i] =
                 Msg("tool", "", json_dumps(RawOf(i)), Calls[i].name, Calls[i].id, <<>>)

C1_Witness ==
    /\ pc = "returned"
    /\ tools # {}
    /\ N = 2
    /\ Calls[1].name # Calls[2].name
    /\ Len(prompts) = 4
    /\ \A p \in Range(prompts) : p.answer = "yes"
    /\ RawOf(1) # RawOf(2)

\* C2: once the operator has declined the confirmation of call k, the node has
\* returned a Command to the assistant whose patch holds no ToolMessage, exactly
\* one removal, naming the id of the message under arbitration, and exactly one
\* constraint, of type avoid and source declined_tool.
C2_DeclineAborts ==
    DeclinedCalls # {}
    => /\ pc = "returned"
       /\ Len(ret) = 1
       /\ ret[1].goto = "assistant_node"
       /\ ToolResultsIn(Patch.messages) = {}
       /\ Patch.messages = <<Msg("remove", message.id, "", "", "", <<>>)>>
       /\ message = entry.messages[Len(entry.messages)]
       /\ Len(Patch.constraints) = 1
       /\ Patch.constraints[1].type = "avoid"
       /\ Patch.constraints[1].source = "declined_tool"

C2_Witness ==
    /\ DeclinedCalls = {2}
    /\ DiscardedCalls = {1}
    /\ Len(outputs) = 1
    /\ pc = "returned"

\* C3: once call k is declined, no tool was invoked for call k or a later call,
\* no prompt was issued about a later call, and each call before k was invoked
\* exactly once, with its own name and arguments.
C3_DeclineStopsLoop ==
    \A k \in DeclinedCalls :
        /\ \A i \in k..N : InvocationsOf(i) = {}
        /\ \A p \in Range(prompts) : p.call <= k
        /\ \A i \in 1..(k - 1) :
             /\ Cardinality(InvocationsOf(i)) = 1
             /\ \A j \in InvocationsOf(i) :
                  invocations[j] = [call |-> i, name |-> Calls[i].name, args |-> Calls[i].args]

C3_Witness ==
    /\ DeclinedCalls = {1}
    /\ N = 2
    /\ pc = "returned"

C3_WitnessLater ==
    /\ DeclinedCalls = {2}
    /\ Cardinality(InvocationsOf(1)) = 1
    /\ pc = "returned"

\* C4: with an empty catalog the node returns at once: no prompt, no invocation,
\* and a Command to the assistant whose patch is an empty message list.
C4_EmptyCatalog ==
    tools = {}
    => /\ pc \in {"idle", "returned"}
       /\ prompts = <<>>
       /\ invocations = <<>>
       /\ pc = "returned" =>
            ret = <<[goto |-> "assistant_node",
                     update |-> [keys |-> {"messages"}, messages |-> <<>>,
                                 constraints |-> <<>>]]>>

C4_Witness ==
    /\ tools = {}
    /\ pc = "returned"
    /\ N = 2

C6_FailureRecovered ==
    \A i \in failed :
        /\ pc # "raised"
        /\ \E k \in 1..Len(outputs) :
             /\ outputs[k].tool_call_id = Calls[i].id
             /\ outputs[k].content \notin KnownPayloads

\* C7 as stated: once the confirmation of a call whose tool is absent from a
\* non-empty catalog is answered, whatever the answer, the node has ended in an
\* error and returned nothing.
C7_AbsentToolAlwaysFatal ==
    \A p \in Confirms :
        (tools # {} /\ p.call \in AbsentCalls) => (pc = "raised" /\ ret = <<>>)

\* C7 amended: accepting the call of an absent tool ends the node in a KeyError,
\* with no Command and no invocation for that call; declining it returns the
\* abort Command of any declined call; a cancelled prompt raises.
C7_AbsentToolFatalWhenAccepted ==
    \A p \in Confirms :
        (tools # {} /\ p.call \in AbsentCalls)
        => /\ p.answer = "yes" =>
                (pc = "raised" /\ exc = "KeyError" /\ ret = <<>>
                 /\ InvocationsOf(p.call) = {})
           /\ p.answer = "no" =>
                (/\ pc = "returned"
                 /\ Len(ret) = 1
                 /\ RemovalsIn(Patch.messages) = {1}
                 /\ Len(Patch.constraints) = 1
                 /\ Patch.constraints[1].description =
                      "Do not use ghost with arguments: "
                          \o json_dumps(JDict(Calls[p.call].args)))
           /\ p.answer = "cancel" => (pc = "raised" /\ ret = <<>>)

C7_Witness ==
    /\ tools # {}
    /\ 2 \in AbsentCalls
    /\ Len(outputs) = 1
    /\ \E p \in Confirms : p.call = 2 /\ p.answer = "yes"
    /\ exc = "KeyError"

\* C8: once a prompt is cancelled, the node has raised: no Command exists, so no
\* ToolMessage and no constraint reach a patch, and the state is as at entry.
C8_CancellationIsFatal ==
    CancelledPrompts # {}
    => /\ pc = "raised"
       /\ exc = "OperatorCancellation"
       /\ ret = <<>>
       /\ messages = entry.messages
       /\ constraints = entry.constraints

C8_Witness ==
    /\ \E p \in CancelledPrompts : p.kind = "review" /\ p.call = 2
    /\ Len(outputs) = 1
    /\ pc = "raised"

C8_WitnessConfirm ==
    /\ \E p \in CancelledPrompts : p.kind = "confirm" /\ p.call = 2
    /\ Len(outputs) = 1
    /\ pc = "raised"

\* C9: at most one Command is returned; its patch holds at most one constraint,
\* and is either ToolMessages only (one per call when the catalog is not empty)
\* with no constraint, or one removal and one constraint with no ToolMessage.
C9_PatchShape ==
    /\ Len(ret) <= 1
    /\ pc = "returned" <=> Len(ret) = 1
    /\ Len(ret) = 1 =>
         /\ Len(Patch.constraints) <= 1
         /\ ~(ToolResultsIn(Patch.messages) # {}
              /\ (Patch.constraints # <<>> \/ RemovalsIn(Patch.messages) # {}))
         /\ \/ /\ Patch.constraints = <<>>
               /\ Patch.keys = {"messages"}
               /\ ToolResultsIn(Patch.messages) = 1..Len(Patch.messages)
               /\ tools # {} => Len(Patch.messages) = N
            \/ /\ Len(Patch.constraints) = 1
               /\ Len(Patch.messages) = 1
               /\ RemovalsIn(Patch.messages) = {1}

C9_Witness ==
    /\ Len(ret) = 1
    /\ Len(Patch.constraints) = 1
    /\ Len(outputs) = 1

C9_WitnessResults ==
    /\ Len(ret) = 1
    /\ Len(Patch.messages) = 2
    /\ Patch.constraints = <<>>

\* C10: add_constraints(add_constraints(X, Y), Z) = add_constraints(X, Y ++ Z),
\* which is X's entries (none when X is None), then Y's, then Z's; and
\* add_constraints(None, Y) = Y.
C10_AddConstraintsAssociative ==
    /\ rpc = "two" =>
         /\ merged2 = add_constraints(left, right \o right2)
         /\ merged2 = (IF left.some THEN left.list ELSE <<>>) \o right \o right2
    /\ (rpc # "start" /\ ~left.some) => merged = right

C10_Witness ==
    /\ rpc = "two"
    /\ left.some
    /\ Len(left.list) = 1
    /\ Len(right) = 2
    /\ Len(right2) = 1
    /\ right[1] # right[2]

C10_WitnessNone ==
    /\ rpc = "two"
    /\ ~left.some
    /\ Len(right) = 2

\* C12: replace_list returns exactly the incoming value whatever the current
\* value (None included): no entry of the current value survives unless it is in
\* the incoming one, and applying it again with the same incoming value gives
\* the same result.
C12_ReplaceList ==
    /\ xpc # "start" =>
         /\ replaced = right
         /\ Len(replaced) = Len(right)
         /\ \A e \in Range(replaced) : e \in Range(right)
    /\ xpc = "two" => (replaced2 = right /\ replaced2 = replaced)

C12_Witness ==
    /\ xpc = "two"
    /\ left.some
    /\ Len(left.list) = 2
    /\ Len(right) = 1
    /\ right[1] \notin Range(left.list)

ListOf(c) == IF c.some THEN c.list ELSE <<>>
IsPrefix(a, b) == Len(a) <= Len(b) /\ SubSeq(b, 1, Len(a)) = a
Merging == pc = "returned" /\ pc' = "applied"
InNode == pc \in {"confirm", "invoking", "review", "returned", "raised"}

\* C11: over the invocations of a conversation, every step leaves the constraints
\* held before it as a prefix of those held after it; a merge of a patch with
\* constraints yields the old sequence followed by the incoming one, in its
\* order; an initialized sequence never becomes uninitialized.
C11_AppendOnly ==
    [][/\ IsPrefix(ListOf(constraints), ListOf(constraints'))
       /\ constraints.some => constraints'.some
       /\ (Merging /\ "constraints" \in Patch.keys)
            => (/\ constraints'.some
                /\ constraints'.list = ListOf(constraints) \o Patch.constraints
                /\ Len(constraints'.list) = Len(ListOf(constraints)) + 1)
       /\ (Merging /\ "constraints" \notin Patch.keys) => constraints' = constraints]_vars

C11_Witness ==
    /\ pc = "applied"
    /\ Len(aborts) = 2
    /\ constraints.some
    /\ Len(constraints.list) = 2

\* C13: the constraints held are as many as the abort patches merged so far, the
\* i-th one built from the i-th declined call; two declines of the same name
\* and arguments in two invocations leave two equal entries.
C13_NoDeduplication ==
    /\ Len(ListOf(constraints)) = Len(aborts)
    /\ \A i \in 1..Len(aborts) :
         /\ constraints.list[i].type = "avoid"
         /\ constraints.list[i].source = "declined_tool"
         /\ constraints.list[i].description =
              "Do not use " \o aborts[i].name \o " with arguments: "
                  \o json_dumps(JDict(aborts[i].args))
    /\ \A i, j \in 1..Len(aborts) :
         aborts[i] = aborts[j] => constraints.list[i] = constraints.list[j]

C13_Witness ==
    /\ Len(aborts) = 2
    /\ aborts[1] = aborts[2]
    /\ Len(constraints.list) = 2
    /\ constraints.list[1] = constraints.list[2]

\* C17: from its entry to its return or its exception, on every path, the node
\* leaves the messages and the constraints of the state as they were handed to
\* it; only the orchestrator's merge changes them.
C17_StateNotMutated ==
    (pc = "idle" \/ InNode)
    => /\ messages = entry.messages
       /\ constraints = entry.constraints

C17_Witness ==
    /\ turn = 2
    /\ pc = "returned"
    /\ Len(outputs) = 1
    /\ Len(messages) = 4
    /\ constraints.some

C17_WitnessRaised ==
    /\ turn = 2
    /\ pc = "raised"
    /\ Len(messages) = 4

\* C18: the message under arbitration is the last message of the state; the
\* removal of an abort patch names its id, which no other message bears; the
\* merge of an abort patch leaves the messages without their last one, the
\* earlier ones unchanged and in order.
ArbitratesLast ==
    InNode => (/\ message = messages[Len(messages)]
               /\ \A i, j \in 1..Len(messages) : messages[i].id = messages[j].id => i = j
               /\ (pc = "returned" /\ "constraints" \in Patch.keys)
                    => Patch.messages = <<Msg("remove", messages[Len(messages)].id, "", "", "", <<>>)>>)
C18_RemovesLastMessage ==
    [][/\ ArbitratesLast
       /\ ArbitratesLast'
       /\ (Merging /\ "constraints" \in Patch.keys)
            => (/\ Len(messages') = Len(messages) - 1
                /\ messages' = SubSeq(messages, 1, Len(messages) - 1))]_vars

C18_Witness ==
    /\ pc = "applied"
    /\ turn = 2
    /\ Len(aborts) = 1
    /\ Len(messages) = 3
    /\ messages[3].type = "tool"

\* C14: at most one ainvoke is in flight, and only while the node awaits it;
\* calls are prompted and invoked in request order; the confirmation of a call
\* after the first directly follows the answered review of the call before it,
\* whose ainvoke has completed.
C14_Sequential ==
    /\ Len(invocations) =
         Len(results) + Cardinality(failed) + (IF pc = "invoking" THEN 1 ELSE 0)
    /\ \A k \in 1..Len(invocations) : invocations[k].call = k
    /\ \A k \in 1..Len(results) : results[k].call = k
    /\ \A j \in 1..Len(prompts) :
         (prompts[j].kind = "confirm" /\ prompts[j].call > 1)
         => /\ j > 1
            /\ prompts[j - 1].kind = "review"
            /\ prompts[j - 1].call = prompts[j].call - 1
            /\ prompts[j - 1].answer \in {"yes", "no"}
            /\ \E r \in Range(results) : r.call = prompts[j].call - 1
    /\ \A j \in 1..Len(prompts) :
         (prompts[j].kind = "confirm" /\ prompts[j].call = 1) => j = 1

C14_Witness ==
    /\ pc = "invoking"
    /\ idx = 2
    /\ Len(invocations) = 2
    /\ Len(results) = 1
    /\ Len(prompts) = 3

AcceptedCalls == {p.call : p \in {q \in Confirms : q.answer = "yes"}}
InvokedAfterYes ==
    \A k \in 1..Len(invocations) : invocations[k].call \in AcceptedCalls
ReviewedAfterCompletion ==
    \A p \in Reviews : \E r \in Range(results) : r.call = p.call
InvokedOnce(i) ==
    /\ Cardinality(InvocationsOf(i)) = 1
    /\ \A k \in InvocationsOf(i) :
         invocations[k].name = Calls[i].name /\ invocations[k].args = Calls[i].args

\* C15 as stated: every ainvoke follows a yes to the confirmation of its call,
\* every accepted call is invoked exactly once with its own arguments, and the
\* review prompt is issued only for calls whose ainvoke completed.
C15_AcceptedInvokedOnce ==
    /\ InvokedAfterYes
    /\ \A i \in AcceptedCalls : InvokedOnce(i)
    /\ ReviewedAfterCompletion

\* C15 amended: as stated for the accepted calls whose tool is in the catalog;
\* an accepted call whose tool is not is never invoked, the lookup raises.
C15_RegisteredAcceptedInvokedOnce ==
    /\ InvokedAfterYes
    /\ \A i \in AcceptedCalls :
         IF Calls[i].name \in tools
         THEN InvokedOnce(i)
         ELSE InvocationsOf(i) = {} /\ pc = "raised" /\ exc = "KeyError"
    /\ ReviewedAfterCompletion

C15_Witness ==
    /\ AcceptedCalls = {1, 2}
    /\ Len(invocations) = 2
    /\ Calls[1].args # Calls[2].args
    /\ Calls[1].name # Calls[2].name
    /\ \E p \in Reviews : p.call = 2

AsMapping(args) == {args[i] : i \in 1..Len(args)}
SameCall(a, b) == a.name = b.name /\ AsMapping(a.args) = AsMapping(b.args)

\* C16 as stated: the description is a function of the name and the arguments:
\* two declined calls of the same name and the same arguments (the same keys
\* with the same values) get the same description, and two that differ in name
\* or arguments get different ones.
C16_DescriptionOfNameAndArguments ==
    dpc = "two" => (SameCall(call1, call2) <=> desc1 = desc2)

\* C16 amended: the description is the name followed by json.dumps of the
\* arguments, which writes the keys in their insertion order: two calls get the
\* same description exactly when they have the same name and the same arguments
\* in the same key order; the same arguments in a different key order get
\* different descriptions.
C16_DescriptionOfNameAndOrderedArguments ==
    dpc = "two" =>
        /\ (call1.name = call2.name /\ call1.args = call2.args) <=> desc1 = desc2
        /\ (SameCall(call1, call2) /\ call1.args # call2.args) => desc1 # desc2
        /\ (call1.name = "edit" /\ call1.args = << <<"path", "a.py">> >>)
             => desc1 = "Do not use edit with arguments: {\"path\": \"a.py\"}"
        /\ (call1.name = "edit" /\ call1.args = << <<"mode", "w">>, <<"path", "a.py">> >>)
             => desc1 = "Do not use edit with arguments: {\"mode\": \"w\", \"path\": \"a.py\"}"

C16_Witness ==
    /\ dpc = "two"
    /\ SameCall(call1, call2)
    /\ call1.args # call2.args
    /\ desc1 # desc2

AllRegistered ==
    \A i \in 1..Len(get_last_message(messages).tool_calls) :
        get_last_message(messages).tool_calls[i].name \in tools
PromptsOfKind(kind) == {j \in 1..Len(prompts) : prompts[j].kind = kind}

\* C19: when every tool requested is in the catalog, every prompt is answered
\* and every ainvoke completes, the node eventually returns one Command, having
\* issued at most N confirmations, N reviews and N invocations.
C19_Terminates ==
    AllRegistered =>
        /\ <>(pc = "returned" /\ Len(ret) = 1)
        /\ [](/\ Len(ret) <= 1
              /\ Cardinality(PromptsOfKind("confirm")) <= N
              /\ Cardinality(PromptsOfKind("review")) <= N
              /\ Len(invocations) <= N)

C19_Witness ==
    /\ pc = "returned"
    /\ Len(ret) = 1
    /\ N = 2
    /\ Cardinality(PromptsOfKind("confirm")) = 2
    /\ Cardinality(PromptsOfKind("review")) = 2
    /\ Len(invocations) = 2

====
